---- MODULE Spec2Model ----
(***************************************************************************)
(* Model of the Christmas-Tree application: the React state owned by App   *)
(* (treeState, handPosition, isMagnified), the gesture classification of   *)
(* GestureController.onResults, and the per-frame update of Experience     *)
(* (global morph factor, hand-driven camera, auto-rotate effect).          *)
(*                                                                         *)
(* Numbers are fixed point.  Landmark coordinates and hand offsets are in  *)
(* hundredths of the normalised image size, the morph factor is in units   *)
(* of 1/MorphOne, time is in units of 1/Second and angles are in units of  *)
(* 1/AngleOne radian.  With tick deltas that are multiples of 1/Second     *)
(* every sum of the morph factor is exact.  For runs of frames with other  *)
(* tick deltas the morph factor is kept bit for bit as the IEEE-754 double *)
(* the program computes (morph64).                                         *)
(***************************************************************************)
EXTENDS Integers, Sequences, FiniteSets, TLC

VARIABLES
    treeState,      \* App: useState<TreeMorphState>
    handPosition,   \* App: useState<{x,y} | null>, <<>> is null, <<x, y>> otherwise
    isMagnified,    \* App: useState(false)
    smoothMorph,    \* Experience: useState(0), in units of 1/MorphOne
    autoRotate,     \* controlsRef.current.autoRotate
    camTheta,       \* azimuth of camera.position, in units of 1/AngleOne rad
    camPhi,         \* polar angle of camera.position, in units of 1/AngleOne rad
    status,         \* GestureController: 'loading' | 'active' | 'error'
    gestureLabel,   \* GestureController: label shown for the last result
    last,           \* history: the handler that ran last, what it was given and
                    \* the treeState and isMagnified it started from
    lastSet,        \* history: the state most recently asked for
    heldDelta,      \* the tick delta of a run of equal frames, as a double
    tickCount,      \* the number of frames of that run so far
    morph64,        \* smoothMorph during such a run, as a double
    mounted,        \* GestureController is mounted: its refs are set
    scriptLoaded,   \* window.Hands is defined
    initCall,       \* the call of init that is due: "effect", "timer" or "none"
    hands,          \* the detector of the effect: "none", "open" or "closed"
    camera,         \* its camera: "none", "starting", "running", "stopped", "failed"
    retries,        \* history: the number of retries of init so far
    fault,          \* history: where the detector threw: "none", "init", "start"
                    \* or "capture"
    photos,         \* App: useState<string[]>, the object URLs as numbers
    photoData,      \* Photos: useMemo photoData, one record per photo
    assets,         \* useLoader: per URL "loading", "ready" or "failed"
    photoPos,       \* PolaroidItem: currentPos per item, null before its mount
    photoScale,     \* PolaroidItem: currentScale per item, in hundredths, 0
                    \* before its mount
    ornPos,         \* Ornaments: currentPositions, per ornament
    crashed,        \* a render has thrown and React has removed the tree
    frames,         \* history: the number of frames of the scene so far
    photoTarget     \* history: the target of each item in the last frame

held == <<heldDelta, tickCount, morph64>>

sensor == <<mounted, scriptLoaded, initCall, hands, camera, retries, fault>>

scene == <<photos, photoData, assets, photoPos, photoScale, ornPos, crashed,
           frames, photoTarget>>

vars == <<treeState, handPosition, isMagnified, smoothMorph, autoRotate,
          camTheta, camPhi, status, gestureLabel, last, lastSet,
          heldDelta, tickCount, morph64,
          mounted, scriptLoaded, initCall, hands, camera, retries, fault,
          photos, photoData, assets, photoPos, photoScale, ornPos, crashed,
          frames, photoTarget>>

----------------------------------------------------------------------------
(* Scales and bounds *)

MorphOne == 8       \* the morph factor 1.0
Second == 12        \* one second of tick delta
AngleOne == 10      \* one radian
CoordOne == 100     \* the landmark coordinate 1.0
Pi == 31            \* Math.PI in units of 1/AngleOne rad
MaxDelta == 3       \* largest tick delta of a free-running frame, in 1/Second
MaxTicks == 84      \* longest run of equal frames
MaxRetries == 3     \* retries of init that are counted
MaxPhotos == 2      \* most photos uploaded
MaxTotal == 3       \* most photos of a gallery that is given
MaxFrames == 2      \* most frames of the scene

Deltas == 1..MaxDelta

\* tick deltas of the frames of the scene: a short and a long frame
SceneDeltas == {1, 3}
MaxStall == 24
StallDeltas == {1, 4, MaxStall}

SCATTERED == "SCATTERED"
TREE_SHAPE == "TREE_SHAPE"
TreeMorphState == {SCATTERED, TREE_SHAPE}

null == <<>>

Min(a, b) == IF a < b THEN a ELSE b
Max(a, b) == IF a > b THEN a ELSE b

----------------------------------------------------------------------------
(* Landmark samples *)

Pt(x, y) == [x |-> x, y |-> y]

\* squared Math.hypot of the difference of two landmarks
Hypot2(a, b) == (a.x - b.x) * (a.x - b.x) + (a.y - b.y) * (a.y - b.y)

Wrist == Pt(50, 90)

\* joint compared with the tip, per finger (landmarks 2, 6, 10, 14, 18)
PipOf == [thumb |-> Pt(35, 75), index |-> Pt(42, 55), middle |-> Pt(50, 52),
          ring |-> Pt(58, 55), pinky |-> Pt(65, 60)]

\* finger tips: stretched out and curled in (landmarks 8, 12, 16, 20)
TipOut == [index |-> Pt(40, 30), middle |-> Pt(50, 25),
           ring |-> Pt(60, 30), pinky |-> Pt(70, 40)]
TipIn == [index |-> Pt(45, 70), middle |-> Pt(50, 70),
          ring |-> Pt(56, 70), pinky |-> Pt(62, 72)]

\* thumb tips (landmark 4): curled, stretched out, touching the stretched
\* index tip, touching the curled index tip, and exactly 0.05 away from the
\* stretched index tip
ThumbTips == {Pt(45, 78), Pt(22, 60), Pt(42, 32), Pt(46, 72), Pt(43, 34)}

\* positions of the middle finger MCP (landmark 9)
McpPoints == {Pt(0, 20), Pt(100, 80), Pt(50, 50)}

Fingers == {"index", "middle", "ring", "pinky"}

\* one hand: the 21 landmarks multiHandLandmarks[0], by index
Hand(thumbTip, out, mcp) ==
    [i \in 0..20 |->
        CASE i = 0 -> Wrist
          [] i = 2 -> PipOf.thumb
          [] i = 4 -> thumbTip
          [] i = 6 -> PipOf.index
          [] i = 8 -> IF "index" \in out THEN TipOut.index ELSE TipIn.index
          [] i = 9 -> mcp
          [] i = 10 -> PipOf.middle
          [] i = 12 -> IF "middle" \in out THEN TipOut.middle ELSE TipIn.middle
          [] i = 14 -> PipOf.ring
          [] i = 16 -> IF "ring" \in out THEN TipOut.ring ELSE TipIn.ring
          [] i = 18 -> PipOf.pinky
          [] i = 20 -> IF "pinky" \in out THEN TipOut.pinky ELSE TipIn.pinky
          [] OTHER -> Wrist]

\* the fingers stretched out: none, one more at a time, or all but the index
Poses == {{}, {"index"}, {"index", "middle"}, {"index", "middle", "ring"},
          Fingers, {"middle", "ring", "pinky"}}

Hands == {Hand(t, o, m) : t \in ThumbTips, o \in Poses, m \in McpPoints}

\* a fist, an open hand, a half-open hand, a pinch of an open hand and a
\* pinch of a fist
FewHands == {Hand(Pt(45, 78), {}, Pt(0, 20)),
             Hand(Pt(22, 60), Fingers, Pt(100, 80)),
             Hand(Pt(22, 60), {"index", "middle"}, Pt(0, 20)),
             Hand(Pt(42, 32), Fingers, Pt(100, 80)),
             Hand(Pt(46, 72), {}, Pt(0, 20))}

\* a hand whose landmark i is missing: landmarks[i] is undefined
Without(hand, i) == [hand EXCEPT ![i] = null]

\* an open hand without its middle finger MCP, a fist without it, a pinch
\* without it, and an open hand without its index tip
BrokenHands == {Without(Hand(Pt(22, 60), Fingers, Pt(100, 80)), 9),
                Without(Hand(Pt(45, 78), {}, Pt(0, 20)), 9),
                Without(Hand(Pt(42, 32), Fingers, Pt(100, 80)), 9),
                Without(Hand(Pt(22, 60), Fingers, Pt(100, 80)), 8)}

\* results.multiHandLandmarks: no hand, or one hand
NoHand == <<>>
Results == {NoHand} \cup {<<h>> : h \in Hands}
FewResults == {NoHand} \cup {<<h>> : h \in FewHands}
BrokenResults == {<<h>> : h \in BrokenHands}

\* no hand, and a pinch in the middle of the image
PinchResults == {NoHand, <<Hand(Pt(42, 32), Fingers, Pt(50, 50))>>}

\* no hand, an open hand and a pinch, both in the middle of the image
CentredResults == {NoHand, <<Hand(Pt(22, 60), Fingers, Pt(50, 50))>>,
                   <<Hand(Pt(42, 32), Fingers, Pt(50, 50))>>}

\* no hand, and a half-open hand at the top and at the bottom of the image
TiltResults == {NoHand, <<Hand(Pt(22, 60), {"index", "middle"}, Pt(50, 0))>>,
                <<Hand(Pt(22, 60), {"index", "middle"}, Pt(50, 100))>>}

----------------------------------------------------------------------------
(* GestureController.onResults: classification of one hand *)

PinchThreshold == 5     \* 0.05, in hundredths

\* const isFingerOpen = (tipIdx, pipIdx) => dTip > dPip
isFingerOpen(landmarks, tipIdx, pipIdx) ==
    Hypot2(landmarks[tipIdx], landmarks[0]) > Hypot2(landmarks[pipIdx], landmarks[0])

\* [indexOpen, middleOpen, ringOpen, pinkyOpen, thumbOpen].filter(Boolean).length
openCount(landmarks) ==
    Cardinality({f \in {<<8, 6>>, <<12, 10>>, <<16, 14>>, <<20, 18>>, <<4, 2>>} :
                    isFingerOpen(landmarks, f[1], f[2])})

\* pinchDist < 0.05
isPinching(landmarks) ==
    Hypot2(landmarks[4], landmarks[8]) < PinchThreshold * PinchThreshold

\* Classify with the open/fist test also run on a pinching hand
ClassifyPinchLast(landmarks) ==
    IF openCount(landmarks) <= 1
    THEN [magnify |-> isPinching(landmarks),
          label |-> IF isPinching(landmarks) THEN "CATCH" ELSE "FORM",
          request |-> TREE_SHAPE]
    ELSE IF openCount(landmarks) >= 4
         THEN [magnify |-> isPinching(landmarks),
               label |-> IF isPinching(landmarks) THEN "CATCH" ELSE "UNLEASH",
               request |-> SCATTERED]
         ELSE [magnify |-> isPinching(landmarks),
               label |-> IF isPinching(landmarks) THEN "CATCH" ELSE "TRACKING",
               request |-> "none"]

\* Classify with the fist threshold at two open fingers
ClassifyFistAtTwo(landmarks) ==
    IF isPinching(landmarks)
    THEN [magnify |-> TRUE, label |-> "CATCH", request |-> "none"]
    ELSE IF openCount(landmarks) <= 2
         THEN [magnify |-> FALSE, label |-> "FORM", request |-> TREE_SHAPE]
         ELSE IF openCount(landmarks) >= 4
              THEN [magnify |-> FALSE, label |-> "UNLEASH", request |-> SCATTERED]
              ELSE [magnify |-> FALSE, label |-> "TRACKING", request |-> "none"]

\* The priority logic: what onMagnify is called with, the label that is set
\* and the state onStateChange is called with ("none" when it is not called).
Classify(landmarks) ==
    IF isPinching(landmarks)
    THEN [magnify |-> TRUE, label |-> "CATCH", request |-> "none"]
    ELSE IF openCount(landmarks) <= 1
         THEN [magnify |-> FALSE, label |-> "FORM", request |-> TREE_SHAPE]
         ELSE IF openCount(landmarks) >= 4
              THEN [magnify |-> FALSE, label |-> "UNLEASH", request |-> SCATTERED]
              ELSE [magnify |-> FALSE, label |-> "TRACKING", request |-> "none"]

\* HandOffset without the mirroring of the horizontal axis
HandOffsetUnmirrored(p) ==
    <<(p.x - CoordOne \div 2) * 2, (p.y - CoordOne \div 2) * 2>>

\* onHandMove({ x: (1 - p.x - 0.5) * 2, y: (p.y - 0.5) * 2 })
HandOffset(p) ==
    <<(CoordOne - p.x - CoordOne \div 2) * 2, (p.y - CoordOne \div 2) * 2>>

\* the landmarks isFingerOpen and the pinch test read; reading .x of a missing
\* one throws a TypeError before any callback is called
ClassifyJoints == {0, 2, 4, 6, 8, 10, 12, 14, 16, 18, 20}
ThrowsInClassify(landmarks) == \E i \in ClassifyJoints : landmarks[i] = null

\* const p = landmarks[9]; p.x throws after the priority logic has run
ThrowsInOffset(landmarks) == landmarks[9] = null

\* Outcome with the state scattered when the hand is lost
OutcomeScatterOnLoss(results) ==
    IF Len(results) > 0
    THEN LET landmarks == results[1]
             c == Classify(landmarks)
         IN  [hand |-> HandOffset(landmarks[9]), magnify |-> c.magnify,
              label |-> c.label, request |-> c.request, active |-> TRUE]
    ELSE [hand |-> null, magnify |-> FALSE, label |-> "NO HAND",
          request |-> SCATTERED, active |-> FALSE]

\* Outcome with magnify left on when the hand is lost
OutcomeNoHandMagnify(results) ==
    IF Len(results) > 0
    THEN LET landmarks == results[1]
             c == Classify(landmarks)
         IN  [hand |-> HandOffset(landmarks[9]), magnify |-> c.magnify,
              label |-> c.label, request |-> c.request, active |-> TRUE]
    ELSE [hand |-> null, magnify |-> TRUE, label |-> "NO HAND",
          request |-> "none", active |-> FALSE]

\* What one sensor result makes the callback do: the argument of onHandMove and
\* of onMagnify, the label, the argument of onStateChange, and whether
\* setStatus('active') is called.
Outcome(results) ==
    IF Len(results) > 0
    THEN LET landmarks == results[1]
             c == Classify(landmarks)
         IN  [hand |-> HandOffset(landmarks[9]), magnify |-> c.magnify,
              label |-> c.label, request |-> c.request, active |-> TRUE]
    ELSE [hand |-> null, magnify |-> FALSE, label |-> "NO HAND",
          request |-> "none", active |-> FALSE]

\* handleStateChange with the two branches swapped
handleStateChangeSwapped(prevState, newState) ==
    IF prevState # newState THEN prevState ELSE newState

\* setTreeState(prev => prev !== newState ? newState : prev)
handleStateChange(prevState, newState) ==
    IF prevState # newState THEN newState ELSE prevState

----------------------------------------------------------------------------
(* Experience *)

\* AutoRotateEffect without the test of the tree state
AutoRotateAnyState(ts, hp, mag) ==
    hp = null /\ ~mag

\* the effect on [treeState, handPosition, isMagnified]
AutoRotateEffect(ts, hp, mag) ==
    ts = TREE_SHAPE /\ hp = null /\ ~mag

\* const step = delta * 1.5
StepOf(delta) == (delta * 3 * MorphOne) \div (2 * Second)

\* MorphNext without the clamp to the target
MorphNextUnclamped(sm, ts, delta) ==
    LET target == IF ts = TREE_SHAPE THEN MorphOne ELSE 0
        step == StepOf(delta)
    IN  IF sm < target THEN sm + step
        ELSE IF sm > target THEN sm - step
        ELSE sm

\* MorphNext that goes to the target in one frame
MorphNextJump(sm, ts, delta) ==
    IF ts = TREE_SHAPE THEN MorphOne ELSE 0

\* the global morph factor after one frame
MorphNext(sm, ts, delta) ==
    LET target == IF ts = TREE_SHAPE THEN MorphOne ELSE 0
        step == StepOf(delta)
    IN  IF sm < target THEN Min(target, sm + step)
        ELSE IF sm > target THEN Max(target, sm - step)
        ELSE sm

\* THREE.MathUtils.lerp(x, y, delta * 3)
LerpDelta3(x, y, delta) == x + ((y - x) * 3 * delta) \div Second

\* the azimuth Spherical.setFromVector3 reads back: atan2, in (-Pi, Pi]
WrapAngle(a) == ((a + Pi - 1) % (2 * Pi)) - Pi + 1

PolarMin == AngleOne \div 10            \* 0.1
PolarMax == (Pi * 10) \div 16           \* Math.PI / 1.6
PolarRest == (Pi * 10) \div 22          \* Math.PI / 2.2

\* CameraNext without the test of isMagnified
CameraNextWhileMagnified(theta, phi, hp, mag, delta) ==
    IF hp # null
    THEN LET targetAzimuth == (hp[1] * (0 - 12) * AngleOne) \div (10 * CoordOne)
             targetPolar == PolarRest - (hp[2] * 5 * AngleOne) \div (10 * CoordOne)
             t == LerpDelta3(theta, targetAzimuth, delta)
             p == LerpDelta3(phi, targetPolar, delta)
         IN  <<WrapAngle(t), Max(PolarMin, Min(PolarMax, p))>>
    ELSE <<theta, phi>>

\* CameraNext without the clamp of spherical.phi
CameraNextUnclamped(theta, phi, hp, mag, delta) ==
    IF hp # null /\ ~mag
    THEN LET targetAzimuth == (hp[1] * (0 - 12) * AngleOne) \div (10 * CoordOne)
             targetPolar == PolarRest - (hp[2] * 5 * AngleOne) \div (10 * CoordOne)
         IN  <<WrapAngle(LerpDelta3(theta, targetAzimuth, delta)),
               LerpDelta3(phi, targetPolar, delta)>>
    ELSE <<theta, phi>>

\* the camera angles after one frame
CameraNext(theta, phi, hp, mag, delta) ==
    IF hp # null /\ ~mag
    THEN LET targetAzimuth == (hp[1] * (0 - 12) * AngleOne) \div (10 * CoordOne)
             targetPolar == PolarRest - (hp[2] * 5 * AngleOne) \div (10 * CoordOne)
             t == LerpDelta3(theta, targetAzimuth, delta)
             p == LerpDelta3(phi, targetPolar, delta)
         IN  <<WrapAngle(t), Max(PolarMin, Min(PolarMax, p))>>
    ELSE <<theta, phi>>

----------------------------------------------------------------------------
(* Doubles *)

(***************************************************************************)
(* A double x with 0 <= x < 2 that is a multiple of 2^-60 is the number    *)
(* x * 2^60 written with three digits of base 2^20, most significant       *)
(* first.  Every double between 2^-7 and 2 is such a multiple.             *)
(***************************************************************************)
Limb == 1048576

Zero64 == <<0, 0, 0>>
One64 == <<Limb, 0, 0>>
Two64 == <<2 * Limb, 0, 0>>

\* the digits brought back into 0..Limb-1; the first digit takes the rest
Carry(a) ==
    LET mid == a[2] + (a[3] \div Limb)
    IN  <<a[1] + (mid \div Limb), mid % Limb, a[3] % Limb>>

Plus(a, b) == Carry(<<a[1] + b[1], a[2] + b[2], a[3] + b[3]>>)
Minus(a, b) == Carry(<<a[1] - b[1], a[2] - b[2], a[3] - b[3]>>)
Times(a, n) == Carry(<<a[1] * n, a[2] * n, a[3] * n>>)
HalfOf(a) ==
    <<a[1] \div 2, (a[2] \div 2) + (a[1] % 2) * (Limb \div 2),
      (a[3] \div 2) + (a[2] % 2) * (Limb \div 2)>>

Less(a, b) ==
    \/ a[1] < b[1]
    \/ a[1] = b[1] /\ a[2] < b[2]
    \/ a[1] = b[1] /\ a[2] = b[2] /\ a[3] < b[3]

RECURSIVE Log2(_)
Log2(n) == IF n < 2 THEN 0 ELSE 1 + Log2(n \div 2)

\* the position of the leading bit of a non-zero number
TopBit(a) ==
    IF a[1] > 0 THEN 40 + Log2(a[1])
    ELSE IF a[2] > 0 THEN 20 + Log2(a[2])
    ELSE Log2(a[3])

\* the nearest double, ties to even: 53 significant bits are kept.  Numbers
\* below 2^-7 are not rounded (their bits below 2^-60 are not kept here).
RoundToDouble(a) ==
    IF a = Zero64 \/ TopBit(a) <= 52 THEN a
    ELSE LET q == 2 ^ (TopBit(a) - 52)
             r == a[3] % q
             odd == (a[3] \div q) % 2 = 1
             up == 2 * r > q \/ (2 * r = q /\ odd)
         IN  Carry(<<a[1], a[2], a[3] - r + (IF up THEN q ELSE 0)>>)

\* x + y and x - y of two doubles
Add64(x, y) == RoundToDouble(Plus(x, y))
Sub64(x, y) == RoundToDouble(Minus(x, y))

Min64(x, y) == IF Less(x, y) THEN x ELSE y

\* StepOf64 with a rate of 1 instead of 1.5
StepOf64RateOne(delta) == delta

\* const step = delta * 1.5
StepOf64(delta) == RoundToDouble(Plus(delta, HalfOf(delta)))

\* the global morph factor after one frame, in doubles; Math.max(0, sm - step)
\* is 0 when step is the larger
MorphNext64(sm, ts, delta) ==
    LET target == IF ts = TREE_SHAPE THEN One64 ELSE Zero64
        step == StepOf64(delta)
    IN  IF Less(sm, target) THEN Min64(target, Add64(sm, step))
        ELSE IF Less(target, sm)
             THEN IF Less(sm, step) THEN target ELSE Sub64(sm, step)
             ELSE sm

\* tick deltas of a run of equal frames: the doubles nearest to 2/45, 1/60,
\* 1/120, 1/30, 1/16, 0.1, 1/3, 0.7 and 1/24 of a second
HeldDeltas ==
    {<<46603, 396128, 745656>>, <<17476, 279620, 279620>>,
     <<8738, 139810, 139810>>, <<34952, 559240, 559240>>, <<65536, 0, 0>>,
     <<104857, 629145, 629152>>, <<349525, 349525, 349504>>,
     <<734003, 209715, 209664>>, <<43690, 699050, 699048>>}

----------------------------------------------------------------------------
(* Ornaments and Photos *)

(***************************************************************************)
(* Positions are vectors <<x, y, z>> in thousandths of a world unit,       *)
(* scales are in hundredths, speeds in tenths, angles of the arc in        *)
(* degrees.                                                                *)
(***************************************************************************)
PosOne == 1000

\* Math.sin of 0, 18, 30, 36, 45, 54, 60, 72 and 90 degrees, in thousandths
SinTable ==
    [d \in {0, 18, 30, 36, 45, 54, 60, 72, 90} |->
        CASE d = 0 -> 0 [] d = 18 -> 309 [] d = 30 -> 500 [] d = 36 -> 588
          [] d = 45 -> 707 [] d = 54 -> 809 [] d = 60 -> 866 [] d = 72 -> 951
          [] d = 90 -> 1000]

Abs(x) == IF x < 0 THEN 0 - x ELSE x

\* Math.sin and Math.cos of an angle between -180 and 180 degrees
Sin(d) ==
    LET a == IF Abs(d) > 90 THEN 180 - Abs(d) ELSE Abs(d)
    IN  IF d < 0 THEN 0 - SinTable[a] ELSE SinTable[a]
Cos(d) ==
    IF Abs(d) <= 90 THEN SinTable[90 - Abs(d)] ELSE 0 - SinTable[Abs(d) - 90]

\* THREE.MathUtils.lerp(x, y, num / den), rounded down
Lerp(x, y, num, den) == x + ((y - x) * num) \div den

\* Vector3.lerp and Vector3.lerpVectors
LerpVec(a, b, num, den) == [c \in 1..3 |-> Lerp(a[c], b[c], num, den)]

\* what the useMemo of Photos draws for one photo: tree position, scatter
\* position, rotation and speed (0.8 + Math.random() * 0.4)
PhotoSamples ==
    {[treePosition |-> <<4000, -2000, 3000>>,
      scatterPosition |-> <<-16000, 8000, 0>>,
      rotation |-> <<1000, 2000, 500>>, speed |-> 8],
     [treePosition |-> <<-4000, 2000, -3000>>,
      scatterPosition |-> <<16000, -8000, 8000>>,
      rotation |-> <<3000, 0, 1000>>, speed |-> 12]}

\* return { id, url, aspectRatio, treePosition, scatterPosition, rotation,
\* scale: 1.5, speed } of the photo at index i (from 0) with what was drawn
PhotoRecord(i, url, sample) ==
    [id |-> i, url |-> url, treePosition |-> sample.treePosition,
     scatterPosition |-> sample.scatterPosition, rotation |-> sample.rotation,
     scale |-> 150, speed |-> sample.speed]

\* the ornaments the useMemo of Ornaments has made: one of the gifts (heavy:
\* speed 0.8 + Math.random() * 0.7) and one of the lights (extra-light: speed
\* 4.0 + Math.random() * 2.0)
HeavyOrnament ==
    [type |-> "heavy", treePosition |-> <<2000, -4000, 1000>>,
     scatterPosition |-> <<-6000, 12000, 9000>>, speed |-> 8]
LightOrnament ==
    [type |-> "extra-light", treePosition |-> <<-1000, 4000, 2000>>,
     scatterPosition |-> <<15000, -4000, -6000>>, speed |-> 59]
Ornaments == <<HeavyOrnament, LightOrnament>>

\* PhotoTarget with the tree/scatter blend also in magnify mode
PhotoTargetBlendOnly(data, morphFactor, mag, index, total) ==
    LerpVec(data.scatterPosition, data.treePosition, morphFactor, MorphOne)

\* The target of a photo item in one frame.  Magnified: radius 6,
\* angleStep = Math.PI / (total + 1), angle = -Math.PI / 2 + angleStep *
\* (index + 1), target (sin(angle) * radius * 1.5, 6 + cos(angle * 2),
\* 22 + cos(angle) * 2).  Otherwise lerpVectors(scatter, tree, morphFactor).
PhotoTarget(data, morphFactor, mag, index, total) ==
    IF mag
    THEN LET radius == 6
             angleStep == 180 \div (total + 1)
             angle == angleStep * (index + 1) - 90
         IN  <<(Sin(angle) * radius * 3) \div 2,
               6 * PosOne + Cos(angle * 2),
               22 * PosOne + Cos(angle) * 2>>
    ELSE LerpVec(data.scatterPosition, data.treePosition, morphFactor, MorphOne)

\* targetScale: 2.5 when magnified, data.scale otherwise
PhotoTargetScale(data, mag) == IF mag THEN 250 ELSE data.scale

\* const moveSpeed = delta * (isMagnified ? 5.0 : 2.0 * data.speed), as a
\* fraction of MoveSpeedDen
MoveSpeedDen == Second * 10

\* MoveSpeed with a magnify rate that follows the speed of the photo
MoveSpeedBySpeed(data, mag, delta) ==
    delta * (IF mag THEN 5 * data.speed ELSE 2 * data.speed)

MoveSpeed(data, mag, delta) == delta * (IF mag THEN 50 ELSE 2 * data.speed)

\* Ornaments: the target of an ornament, the blend at targetMorphFactor
OrnamentTarget(item, morphFactor) ==
    LerpVec(item.scatterPosition, item.treePosition, morphFactor, MorphOne)

\* const dt = delta * 1.5; const lerpSpeed = dt * item.speed, as a fraction
\* of LerpSpeedDen
LerpSpeedDen == Second * 100
LerpSpeed(item, delta) == delta * 15 * item.speed

----------------------------------------------------------------------------
(* State machine *)

InitTheta == 0      \* camera at [0, 6, 28]
InitPhi == 13       \* acos(6 / sqrt(6*6 + 28*28)) = 1.36 rad

\* What is remembered of a handler: its name, the state it asked for ("none"
\* when it asked for none), the open-finger count of its hand, the squared
\* distance between thumb tip and index tip (both -1 without a hand) and the
\* middle finger MCP of its hand (null without a hand).
Record(op, request, open, pinch2, mcp) ==
    [op |-> op, request |-> request, open |-> open, pinch2 |-> pinch2,
     mcp |-> mcp, treeState |-> treeState, isMagnified |-> isMagnified]

\* Mounted with SCATTERED as the initial value of treeState
MountedScattered ==
    /\ treeState = SCATTERED
    /\ handPosition = null
    /\ isMagnified = FALSE
    /\ smoothMorph = 0
    /\ autoRotate = AutoRotateEffect(SCATTERED, null, FALSE)
    /\ camTheta = InitTheta
    /\ camPhi = InitPhi
    /\ status = "loading"
    /\ gestureLabel = ""
    /\ last = [op |-> "init", request |-> "none", open |-> -1, pinch2 |-> -1,
               mcp |-> null, treeState |-> SCATTERED, isMagnified |-> FALSE]
    /\ lastSet = "none"

\* the state after the first render and its effects
Mounted ==
    /\ treeState = TREE_SHAPE
    /\ handPosition = null
    /\ isMagnified = FALSE
    /\ smoothMorph = 0
    /\ autoRotate = AutoRotateEffect(TREE_SHAPE, null, FALSE)
    /\ camTheta = InitTheta
    /\ camPhi = InitPhi
    /\ status = "loading"
    /\ gestureLabel = ""
    /\ last = [op |-> "init", request |-> "none", open |-> -1, pinch2 |-> -1,
               mcp |-> null, treeState |-> TREE_SHAPE, isMagnified |-> FALSE]
    /\ lastSet = "none"

\* the sensor after init has run through and the camera has started
SensorRunning ==
    /\ mounted = TRUE
    /\ scriptLoaded = TRUE
    /\ initCall = "none"
    /\ hands = "open"
    /\ camera = "running"
    /\ retries = 0
    /\ fault = "none"

\* the detector is sending results to the callback
Delivering == hands = "open" /\ camera = "running"

\* the ornaments after their layout effect, and no photos
SceneMounted ==
    /\ photos = <<>>
    /\ photoData = <<>>
    /\ assets = <<>>
    /\ photoPos = <<>>
    /\ photoScale = <<>>
    /\ ornPos = [i \in 1..Len(Ornaments) |-> Ornaments[i].scatterPosition]
    /\ crashed = FALSE
    /\ frames = 0
    /\ photoTarget = <<>>

Init ==
    /\ Mounted
    /\ SensorRunning
    /\ SceneMounted
    /\ heldDelta = Zero64
    /\ tickCount = 0
    /\ morph64 = Zero64

\* The sensor callback, with the render and the effect that follow it.  It
\* returns at once when the refs are unset.  With a hand that lacks a landmark
\* it throws: before any callback but setStatus when the landmark is one the
\* classification reads (the record then has -2 for the open-finger count),
\* after the priority logic and before onHandMove when it is landmark 9.  The
\* state updates queued before the throw are rendered.
OnResults(results) ==
    /\ mounted
    /\ IF Len(results) > 0 /\ ThrowsInClassify(results[1])
       THEN /\ status' = "active"
            /\ last' = Record("results", "none", -2, -2, results[1][9])
            /\ UNCHANGED <<isMagnified, gestureLabel, treeState, lastSet,
                           handPosition>>
       ELSE IF Len(results) > 0 /\ ThrowsInOffset(results[1])
       THEN LET c == Classify(results[1])
            IN  /\ status' = "active"
                /\ isMagnified' = c.magnify
                /\ gestureLabel' = c.label
                /\ treeState' = IF c.request = "none" THEN treeState
                                ELSE handleStateChange(treeState, c.request)
                /\ lastSet' = IF c.request = "none" THEN lastSet ELSE c.request
                /\ last' = Record("results", c.request, openCount(results[1]),
                                  Hypot2(results[1][4], results[1][8]), null)
                /\ UNCHANGED handPosition
       ELSE LET o == Outcome(results)
            IN  /\ status' = IF o.active THEN "active" ELSE status
                /\ isMagnified' = o.magnify
                /\ gestureLabel' = o.label
                /\ treeState' = IF o.request = "none" THEN treeState
                                ELSE handleStateChange(treeState, o.request)
                /\ lastSet' = IF o.request = "none" THEN lastSet ELSE o.request
                /\ handPosition' = o.hand
                /\ last' = IF Len(results) > 0
                           THEN Record("results", o.request, openCount(results[1]),
                                       Hypot2(results[1][4], results[1][8]),
                                       results[1][9])
                           ELSE Record("results", o.request, -1, -1, null)
    /\ autoRotate' = AutoRotateEffect(treeState', handPosition', isMagnified')
    /\ UNCHANGED <<smoothMorph, camTheta, camPhi>>

\* UI: onToggle = setTreeState, from the Chaos and Form buttons
UserToggle(state) ==
    /\ treeState' = state
    /\ lastSet' = state
    /\ autoRotate' = AutoRotateEffect(treeState', handPosition, isMagnified)
    /\ last' = Record("toggle", state, -1, -1, null)
    /\ UNCHANGED <<handPosition, isMagnified, smoothMorph, camTheta, camPhi,
                   status, gestureLabel>>

\* FrameTick that takes the hand for lost when the frame took long
FrameTickDropsHand(delta) ==
    /\ smoothMorph' = MorphNext(smoothMorph, treeState, delta)
    /\ LET cam == CameraNext(camTheta, camPhi, handPosition, isMagnified, delta)
       IN  camTheta' = cam[1] /\ camPhi' = cam[2]
    /\ handPosition' = IF delta >= 2 THEN null ELSE handPosition
    /\ isMagnified' = IF delta >= 2 THEN FALSE ELSE isMagnified
    /\ last' = Record("tick", "none", -1, -1, null)
    /\ UNCHANGED <<treeState, autoRotate, status, gestureLabel, lastSet>>

\* Experience.useFrame with tick delta `delta`
FrameTick(delta) ==
    /\ smoothMorph' = MorphNext(smoothMorph, treeState, delta)
    /\ LET cam == CameraNext(camTheta, camPhi, handPosition, isMagnified, delta)
       IN  camTheta' = cam[1] /\ camPhi' = cam[2]
    /\ last' = Record("tick", "none", -1, -1, null)
    /\ UNCHANGED <<treeState, handPosition, isMagnified, autoRotate, status,
                   gestureLabel, lastSet>>

\* a sensor result arrives
Sense == \E r \in FewResults : Delivering /\ OnResults(r) /\ UNCHANGED <<held, sensor, scene>>

\* a button of the UI is pressed
Toggle == \E s \in TreeMorphState : UserToggle(s) /\ UNCHANGED <<held, sensor, scene>>

\* a frame is rendered
Tick == \E d \in Deltas : FrameTick(d) /\ UNCHANGED <<held, sensor, scene>>

Next == Sense \/ Toggle \/ Tick

\* the application: sensor results, button presses and frames in any order
Spec == Init /\ [][Next]_vars

\* a sensor result with any of the hands arrives
SenseAny == \E r \in Results : Delivering /\ OnResults(r) /\ UNCHANGED <<held, sensor, scene>>

NextGesture == SenseAny \/ Toggle

\* the gesture path alone: every hand sample, and the buttons
SpecGesture == Init /\ [][NextGesture]_vars

InitHeld ==
    /\ Mounted
    /\ SensorRunning
    /\ SceneMounted
    /\ heldDelta \in HeldDeltas
    /\ tickCount = 0
    /\ morph64 = Zero64

\* One more frame of a run of frames with the same tick delta.  No hand is
\* present in such a run, so the frame skips the camera.
HeldTick ==
    /\ tickCount < MaxTicks
    /\ handPosition = null
    /\ morph64' = MorphNext64(morph64, treeState, heldDelta)
    /\ tickCount' = tickCount + 1
    /\ last' = Record("tick", "none", -1, -1, null)
    /\ UNCHANGED <<treeState, handPosition, isMagnified, smoothMorph, autoRotate,
                   camTheta, camPhi, status, gestureLabel, lastSet, heldDelta,
                   sensor, scene>>

\* the morph factor has arrived at the target of the current state
Arrived == morph64 = (IF treeState = TREE_SHAPE THEN One64 ELSE Zero64)

\* the other button is pressed once the morph factor has arrived: a new run
HeldToggle == \E s \in TreeMorphState :
    /\ Arrived
    /\ s # treeState
    /\ UserToggle(s)
    /\ tickCount' = 0
    /\ UNCHANGED <<heldDelta, morph64, sensor, scene>>

NextHeld == HeldTick \/ HeldToggle

\* runs of frames with a constant tick delta, each from one end to the other
SpecHeld == InitHeld /\ [][NextHeld]_vars

\* a sensor result with a hand that lacks a landmark arrives
SenseBroken == \E r \in BrokenResults :
    Delivering /\ OnResults(r) /\ UNCHANGED <<held, sensor, scene>>

NextSample == Sense \/ SenseBroken \/ Toggle

\* sensor results with complete and with incomplete hands, and the buttons
SpecSample == Init /\ [][NextSample]_vars

----------------------------------------------------------------------------
(* GestureController: the life of the sensor *)

app == <<treeState, handPosition, isMagnified, smoothMorph, autoRotate,
         camTheta, camPhi, status, gestureLabel, last, lastSet>>

\* the state after the first render, before the effect has called init
InitSensor ==
    /\ Mounted
    /\ SceneMounted
    /\ heldDelta = Zero64
    /\ tickCount = 0
    /\ morph64 = Zero64
    /\ mounted = TRUE
    /\ scriptLoaded \in BOOLEAN
    /\ initCall = "effect"
    /\ hands = "none"
    /\ camera = "none"
    /\ retries = 0
    /\ fault = "none"

\* the script of the detector finishes loading: window.Hands becomes defined
ScriptLoads ==
    /\ ~scriptLoaded
    /\ scriptLoaded' = TRUE
    /\ UNCHANGED <<app, held, scene, mounted, initCall, hands, camera, retries,
                   fault>>

\* what the constructors and calls of init do: all return, new window.Hands
\* throws, or a later call (setOptions, onResults, new window.Camera) throws
InitOutcomes == {"ok", "throwsNew", "throwsLater"}

\* setStatus(value); a state update of an unmounted component is dropped
SetStatus(value) == status' = IF mounted THEN value ELSE status

\* InitRun that gives up when the detector is not loaded
InitRunNoRetry(outcome) ==
    /\ initCall # "none"
    /\ last' = Record("init", "none", -1, -1, null)
    /\ IF ~scriptLoaded
       THEN /\ outcome = "ok"
            /\ initCall' = "none"
            /\ SetStatus("error")
            /\ UNCHANGED <<hands, camera, fault, retries>>
       ELSE /\ initCall' = "none"
            /\ hands' = IF outcome = "throwsNew" THEN hands ELSE "open"
            /\ camera' = IF outcome = "ok" /\ mounted THEN "starting" ELSE camera
            /\ fault' = IF outcome = "ok" THEN fault ELSE "init"
            /\ IF outcome = "ok" THEN UNCHANGED status ELSE SetStatus("error")
            /\ UNCHANGED retries
    /\ UNCHANGED <<treeState, handPosition, isMagnified, smoothMorph, autoRotate,
                   camTheta, camPhi, gestureLabel, lastSet, held, scene, mounted,
                   scriptLoaded>>

\* One call of init, from the effect or from the timer, up to its await.
\* Without window.Hands it sets the timer again.  Otherwise it makes the
\* detector and, when videoRef.current is set, the camera, and calls
\* camera.start(); an exception ends it in the catch block.
InitRun(outcome) ==
    /\ initCall # "none"
    /\ last' = Record("init", "none", -1, -1, null)
    /\ IF ~scriptLoaded
       THEN /\ outcome = "ok"
            /\ initCall' = "timer"
            /\ retries' = Min(retries + 1, MaxRetries)
            /\ UNCHANGED <<hands, camera, fault, status>>
       ELSE /\ initCall' = "none"
            /\ hands' = IF outcome = "throwsNew" THEN hands ELSE "open"
            /\ camera' = IF outcome = "ok" /\ mounted THEN "starting" ELSE camera
            /\ fault' = IF outcome = "ok" THEN fault ELSE "init"
            /\ IF outcome = "ok" THEN UNCHANGED status ELSE SetStatus("error")
            /\ UNCHANGED retries
    /\ UNCHANGED <<treeState, handPosition, isMagnified, smoothMorph, autoRotate,
                   camTheta, camPhi, gestureLabel, lastSet, held, scene, mounted,
                   scriptLoaded>>

\* await camera.start() returns: frames are sent to the detector from now on
CameraStarted ==
    /\ camera = "starting"
    /\ camera' = "running"
    /\ UNCHANGED <<app, held, scene, mounted, scriptLoaded, initCall, hands,
                   retries, fault>>

\* await camera.start() throws: the catch block of init
CameraStartFails ==
    /\ camera = "starting"
    /\ camera' = "failed"
    /\ fault' = "start"
    /\ SetStatus("error")
    /\ last' = Record("init", "none", -1, -1, null)
    /\ UNCHANGED <<treeState, handPosition, isMagnified, smoothMorph, autoRotate,
                   camTheta, camPhi, gestureLabel, lastSet, held, scene, mounted,
                   scriptLoaded, initCall, hands, retries>>

\* hands.send throws in onFrame: the exception leaves the callback of the
\* camera, no handler of the component sees it
CaptureFault ==
    /\ Delivering
    /\ mounted
    /\ fault = "none"
    /\ fault' = "capture"
    /\ UNCHANGED <<app, held, scene, mounted, scriptLoaded, initCall, hands,
                   camera, retries>>

\* The cleanup of the effect, when the component is removed: the camera and the
\* detector the effect holds at that time are stopped and closed.  The timer
\* of a retry is not cleared.  The refs are unset.  The effect returns the
\* cleanup after its own call of init.
Teardown ==
    /\ mounted
    /\ initCall # "effect"
    /\ mounted' = FALSE
    /\ camera' = IF camera \in {"starting", "running"} THEN "stopped" ELSE camera
    /\ hands' = IF hands = "open" THEN "closed" ELSE hands
    /\ UNCHANGED <<app, held, scene, scriptLoaded, initCall, retries, fault>>

InitStep == \E o \in InitOutcomes : InitRun(o)

\* a sensor result with a hand in the middle of the image, or with none
SenseCentred == \E r \in CentredResults :
    Delivering /\ OnResults(r) /\ UNCHANGED <<held, sensor, scene>>

\* a sensor result with a half-open hand at the top or at the bottom of the
\* image, or without a hand
SenseTilt == \E r \in TiltResults :
    Delivering /\ OnResults(r) /\ UNCHANGED <<held, sensor, scene>>

\* a frame after a short or a long time, up to a stall of MaxStall / Second
StalledTick == \E d \in StallDeltas :
    FrameTick(d) /\ UNCHANGED <<held, sensor, scene>>

NextCamera == SenseTilt \/ StalledTick

\* the camera driven by a hand, with stalled frames
SpecCamera == Init /\ [][NextCamera]_vars

NextStartup == SenseTilt \/ Toggle \/ StalledTick

\* the application from its start; the render loop goes on rendering frames
SpecStartup == Init /\ [][NextStartup]_vars /\ WF_vars(StalledTick)

\* the buttons and the frames of the mounted application
MountedToggle == mounted /\ Toggle
MountedTick == mounted /\ Tick

NextSensor ==
    \/ ScriptLoads
    \/ InitStep
    \/ CameraStarted
    \/ CameraStartFails
    \/ CaptureFault
    \/ Teardown
    \/ SenseCentred
    \/ MountedToggle
    \/ MountedTick

\* the application from its mount to its removal; a timer that is due fires
SpecSensor == InitSensor /\ [][NextSensor]_vars /\ WF_vars(InitStep)

----------------------------------------------------------------------------
(* The scene: uploads, assets and the frames of ornaments and photos *)

InitScene ==
    /\ Mounted
    /\ SensorRunning
    /\ SceneMounted
    /\ heldDelta = Zero64
    /\ tickCount = 0
    /\ morph64 = Zero64

\* n times the value v
Repeat(v, n) == [i \in 1..n |-> v]

\* App.handleUpload with k files, and the render that follows: one object URL
\* per file is appended to photos, and the useMemo of Photos, which depends on
\* photos, draws the data of every photo anew.  The items of the new photos
\* suspend on their textures.
handleUpload(k) ==
    /\ ~crashed
    /\ Len(photos) + k <= MaxPhotos
    /\ photos' = photos \o [i \in 1..k |-> Len(photos) + i]
    /\ assets' = assets \o Repeat("loading", k)
    /\ \E draw \in [1..(Len(photos) + k) -> PhotoSamples] :
          photoData' = [i \in 1..(Len(photos) + k) |->
                           PhotoRecord(i - 1, photos'[i], draw[i])]
    /\ photoPos' = photoPos \o Repeat(null, k)
    /\ photoScale' = photoScale \o Repeat(0, k)
    /\ photoTarget' = photoTarget \o Repeat(null, k)
    /\ UNCHANGED <<app, held, sensor, ornPos, crashed, frames>>

\* The Suspense boundary of Experience wraps Photos as a whole: its content,
\* every photo item, is shown when no item is suspended, and a new item is
\* mounted when the content is shown.
Shown(a, c) == ~c /\ \A i \in 1..Len(a) : a[i] = "ready"

\* the texture of photo i has loaded; items not yet mounted are mounted when the
\* boundary shows its content: useRef(new Vector3(...data.scatterPosition)),
\* useRef(data.scale)
AssetLoaded(i) ==
    /\ ~crashed
    /\ i \in 1..Len(assets)
    /\ assets[i] = "loading"
    /\ assets' = [assets EXCEPT ![i] = "ready"]
    /\ photoPos' = [j \in 1..Len(photoPos) |->
                       IF Shown(assets', crashed) /\ photoPos[j] = null
                       THEN photoData[j].scatterPosition ELSE photoPos[j]]
    /\ photoScale' = [j \in 1..Len(photoScale) |->
                         IF Shown(assets', crashed) /\ photoPos[j] = null
                         THEN photoData[j].scale ELSE photoScale[j]]
    /\ UNCHANGED <<app, held, sensor, photos, photoData, ornPos, crashed, frames,
                   photoTarget>>

\* the texture of photo i fails to load: useLoader throws in the render of the
\* item, no error boundary is above it, React removes the tree
AssetFails(i) ==
    /\ ~crashed
    /\ i \in 1..Len(assets)
    /\ assets[i] = "loading"
    /\ assets' = [assets EXCEPT ![i] = "failed"]
    /\ crashed' = TRUE
    /\ UNCHANGED <<app, held, sensor, photos, photoData, photoPos, photoScale,
                   ornPos, frames, photoTarget>>

\* One frame of the scene with tick delta `delta`: the useFrame of Experience,
\* of Ornaments and of every photo item that is shown.  The items read the
\* morph factor and the magnify flag of the last render.
SceneFrame(delta) ==
    /\ ~crashed
    /\ frames < MaxFrames
    /\ frames' = frames + 1
    /\ FrameTick(delta)
    /\ ornPos' = [i \in 1..Len(Ornaments) |->
                     LerpVec(ornPos[i], OrnamentTarget(Ornaments[i], smoothMorph),
                             LerpSpeed(Ornaments[i], delta), LerpSpeedDen)]
    /\ IF Shown(assets, crashed)
       THEN /\ photoTarget' = [i \in 1..Len(photoData) |->
                                  PhotoTarget(photoData[i], smoothMorph, isMagnified,
                                              i - 1, Len(photoData))]
            /\ photoPos' = [i \in 1..Len(photoData) |->
                               LerpVec(photoPos[i], photoTarget'[i],
                                       MoveSpeed(photoData[i], isMagnified, delta),
                                       MoveSpeedDen)]
            /\ photoScale' = [i \in 1..Len(photoData) |->
                                 Lerp(photoScale[i],
                                      PhotoTargetScale(photoData[i], isMagnified),
                                      MoveSpeed(photoData[i], isMagnified, delta),
                                      MoveSpeedDen)]
       ELSE UNCHANGED <<photoTarget, photoPos, photoScale>>
    /\ UNCHANGED <<held, sensor, photos, photoData, assets, crashed>>

\* files are chosen in the file dialog
Upload == \E k \in 1..MaxPhotos : handleUpload(k)

\* a texture arrives, or its load fails
Loaded == \E i \in 1..MaxPhotos : AssetLoaded(i)
LoadFails == \E i \in 1..MaxPhotos : AssetFails(i)

\* a frame of the scene is rendered
SceneTick == \E d \in SceneDeltas : SceneFrame(d)

\* a sensor result with a pinch in the middle of the image, or without a hand
SensePinch == \E r \in PinchResults :
    ~crashed /\ Delivering /\ OnResults(r) /\ UNCHANGED <<held, sensor, scene>>

NextScene == Upload \/ Loaded \/ SceneTick \/ SensePinch

\* the scene with its photos: uploads, loads, pinches and frames
SpecScene == InitScene /\ [][NextScene]_vars

\* A gallery that is given: up to MaxTotal photos are uploaded and loaded, the
\* morph factor is anywhere on its way, and the hand is away or pinching in the
\* middle of the image.
InitGallery ==
    /\ treeState \in TreeMorphState
    /\ smoothMorph \in 0..MorphOne
    /\ isMagnified \in BOOLEAN
    /\ handPosition = IF isMagnified THEN <<0, 0>> ELSE null
    /\ gestureLabel = IF isMagnified THEN "CATCH" ELSE "NO HAND"
    /\ status = "active"
    /\ autoRotate = AutoRotateEffect(treeState, handPosition, isMagnified)
    /\ camTheta = InitTheta
    /\ camPhi = InitPhi
    /\ last = [op |-> "results", request |-> "none",
               open |-> IF isMagnified THEN 5 ELSE -1,
               pinch2 |-> IF isMagnified THEN 8 ELSE -1,
               mcp |-> IF isMagnified THEN Pt(50, 50) ELSE null,
               treeState |-> treeState, isMagnified |-> FALSE]
    /\ lastSet = treeState
    /\ SensorRunning
    /\ heldDelta = Zero64
    /\ tickCount = 0
    /\ morph64 = Zero64
    /\ \E total \in 1..MaxTotal :
          /\ photos = [i \in 1..total |-> i]
          /\ assets = Repeat("ready", total)
          /\ \E draw \in [1..total -> PhotoSamples] :
                photoData = [i \in 1..total |-> PhotoRecord(i - 1, i, draw[i])]
          /\ photoTarget = Repeat(null, total)
    /\ photoPos = [i \in 1..Len(photoData) |-> photoData[i].scatterPosition]
    /\ photoScale = [i \in 1..Len(photoData) |-> photoData[i].scale]
    /\ ornPos = [i \in 1..Len(Ornaments) |-> Ornaments[i].scatterPosition]
    /\ crashed = FALSE
    /\ frames = 0

\* the frames of a gallery that is given
SpecGallery == InitGallery /\ [][SceneTick]_vars

NextAssets == Upload \/ Loaded \/ LoadFails \/ SceneTick

\* the photos and their textures: uploads, loads, failed loads and frames
SpecAssets == InitScene /\ [][NextAssets]_vars

TypeOK ==
    /\ treeState \in TreeMorphState
    /\ isMagnified \in BOOLEAN
    /\ smoothMorph \in 0..MorphOne
    /\ autoRotate \in BOOLEAN
    /\ camTheta \in (1 - Pi)..Pi
    /\ camPhi \in 0..Pi
    /\ status \in {"loading", "active", "error"}

----------------------------------------------------------------------------
(* Properties *)

\* the target of the morph factor: 1 for the tree shape, 0 for scattered
Target == IF treeState = TREE_SHAPE THEN MorphOne ELSE 0

\* what the handler recorded in l was given: a hand whose thumb tip and index
\* tip are closer than 0.05, or a hand that is not pinching with at most one,
\* two or three, or at least four open fingers, or no hand at all
SawPinch(l) == l.op = "results" /\ l.open >= 0 /\ l.pinch2 < 5 * 5
SawFist(l) == l.op = "results" /\ l.pinch2 >= 5 * 5 /\ l.open \in 0..1
SawTracking(l) == l.op = "results" /\ l.pinch2 >= 5 * 5 /\ l.open \in 2..3
SawOpen(l) == l.op = "results" /\ l.pinch2 >= 5 * 5 /\ l.open \in 4..5
SawNoHand(l) == l.op = "results" /\ l.open = -1

\* C1: The morph factor stays within [0,1], only a frame changes it, and a frame
\* moves it toward the target of the current state without stepping past it:
\* it ends between its old value and the target, and moves when it is not yet
\* at the target.
MorphTowardTarget ==
    /\ smoothMorph \in 0..MorphOne
    /\ [][/\ smoothMorph' \in 0..MorphOne
          /\ last'.op # "tick" => smoothMorph' = smoothMorph
          /\ last'.op = "tick" =>
                /\ smoothMorph <= Target => smoothMorph <= smoothMorph' /\ smoothMorph' <= Target
                /\ smoothMorph >= Target => smoothMorph >= smoothMorph' /\ smoothMorph' >= Target
                /\ smoothMorph # Target => smoothMorph' # smoothMorph]_vars

\* a frame has moved the morph factor down toward 0, and it is not there yet
MorphMovingDown ==
    /\ last.op = "tick"
    /\ treeState = SCATTERED
    /\ smoothMorph \in 1..(MorphOne - 1)

\* ceil(1 / (d * 1.5)) for the double d: the least n with n * 1.5 * d >= 1
RECURSIVE TicksFrom(_, _)
TicksFrom(d, n) ==
    IF Less(Times(d, 3 * n), Two64) THEN TicksFrom(d, n + 1) ELSE n
TicksToForm(d) == TicksFrom(d, 1)

\* C2 as stated: With the target held at 1 and a constant tick delta d,
\* starting from 0, the morph factor is exactly 1 after ceil(1/(d*1.5)) frames
\* and on every later frame.
FormedAfterTicks ==
    treeState = TREE_SHAPE /\ tickCount >= TicksToForm(heldDelta) => morph64 = One64

\* C2: With the target held at 1 and a constant tick delta d, starting from 0,
\* the morph factor is exactly 1 after ceil(1/(d*1.5)) + 1 frames and on every
\* later frame.
FormedOneTickLater ==
    treeState = TREE_SHAPE /\ tickCount >= TicksToForm(heldDelta) + 1 => morph64 = One64

\* the frame after ceil(1/(d*1.5)) frames of 2/45 s, with the morph factor at 1
FormedOneFrameLate ==
    /\ heldDelta = <<46603, 396128, 745656>>
    /\ treeState = TREE_SHAPE
    /\ tickCount = TicksToForm(heldDelta) + 1
    /\ last.op = "tick"
    /\ morph64 = One64

\* C3: The interaction state changes only in a button press or in a sensor
\* result with a fist or an open hand; a pinch, a half-open hand, a result
\* without a hand and a frame never change it.
StateChangesOnlyOnFistOpenToggle ==
    [][treeState' # treeState =>
          last'.op = "toggle" \/ SawFist(last') \/ SawOpen(last')]_vars

\* an open hand has scattered the tree
OpenHandScattered ==
    /\ SawOpen(last)
    /\ last.treeState = TREE_SHAPE
    /\ treeState = SCATTERED

\* C4: A hand whose thumb tip and index tip are closer than 0.05 is labelled
\* as a pinch whatever its open-finger count: magnify is set and no state is
\* asked for.
PinchPreempts ==
    SawPinch(last) =>
        /\ gestureLabel = "CATCH"
        /\ isMagnified
        /\ last.request = "none"
        /\ treeState = last.treeState

\* a pinch with five open fingers, seen while the tree was formed
PinchOfOpenHand ==
    /\ SawPinch(last)
    /\ last.open = 5
    /\ last.treeState = TREE_SHAPE
    /\ isMagnified

\* C5: A hand that is not pinching gives TRACKING with two or three open
\* fingers, leaving magnify false and the interaction state as it was; it
\* gives a fist and the tree shape with at most one open finger, and an open
\* hand and the scattered state with at least four.
DeadZone ==
    /\ SawTracking(last) =>
          /\ gestureLabel = "TRACKING"
          /\ ~isMagnified
          /\ last.request = "none"
          /\ treeState = last.treeState
    /\ SawFist(last) =>
          /\ gestureLabel = "FORM"
          /\ ~isMagnified
          /\ last.request = TREE_SHAPE
          /\ treeState = TREE_SHAPE
    /\ SawOpen(last) =>
          /\ gestureLabel = "UNLEASH"
          /\ ~isMagnified
          /\ last.request = SCATTERED
          /\ treeState = SCATTERED

\* three open fingers, thumb and index exactly 0.05 apart, tree scattered
HalfOpenHandTracked ==
    /\ SawTracking(last)
    /\ last.open = 3
    /\ last.pinch2 = 5 * 5
    /\ last.treeState = SCATTERED
    /\ treeState = SCATTERED

\* C6: A sensor result without a hand sets the hand offset to none and magnify
\* to false and leaves the interaction state as it was, also after a pinch.
NoHandFreezes ==
    SawNoHand(last) =>
        /\ handPosition = null
        /\ ~isMagnified
        /\ last.request = "none"
        /\ treeState = last.treeState

\* the hand is lost while magnify is on
HandLostAfterPinch ==
    /\ SawNoHand(last)
    /\ last.isMagnified
    /\ ~isMagnified
    /\ handPosition = null

\* C7: A single sensor result with a fist makes the interaction state the tree
\* shape at once and does not touch the morph factor; a frame raises the morph
\* factor by at most 1.5 times its tick delta.
FistFormsAtOnce ==
    [][/\ SawFist(last') => treeState' = TREE_SHAPE /\ smoothMorph' = smoothMorph
       /\ \A d \in Deltas :
             FrameTick(d) =>
                 2 * Second * (smoothMorph' - smoothMorph) <= 3 * d * MorphOne]_vars

\* a fist seen while scattered with the morph factor at 0
FistWhileScattered ==
    /\ SawFist(last)
    /\ last.treeState = SCATTERED
    /\ treeState = TREE_SHAPE
    /\ smoothMorph = 0

\* C8: The auto-rotate flag is true exactly when the interaction state is the
\* tree shape, there is no hand offset and magnify is false.
AutoRotateExactly ==
    autoRotate <=> (treeState = TREE_SHAPE /\ handPosition = null /\ ~isMagnified)

\* the Form button switches auto-rotation back on
AutoRotateAfterForm ==
    /\ autoRotate
    /\ last.op = "toggle"
    /\ last.treeState = SCATTERED

\* C9: The camera angles change only in a frame that finds a hand offset and
\* magnify false; a frame while magnify is true leaves them as they are.
CameraStillWhileMagnified ==
    [][<<camTheta, camPhi>>' # <<camTheta, camPhi>> =>
          last'.op = "tick" /\ handPosition # null /\ ~isMagnified]_vars

\* a frame rendered while magnify is on and a hand is present
FrameWhileMagnified ==
    /\ last.op = "tick"
    /\ isMagnified
    /\ handPosition # null

\* C10: The interaction state is the value most recently asked for by a button
\* press, a fist or an open hand.
LastWriterWins ==
    lastSet # "none" => treeState = lastSet

\* the Chaos button overrides a fist that is still the latest gesture
ToggleOverridesFist ==
    /\ last.op = "toggle"
    /\ gestureLabel = "FORM"
    /\ last.treeState = TREE_SHAPE
    /\ treeState = SCATTERED

\* C12: Every sensor result with a hand, whatever its label, sets the hand
\* offset to (1 - 2 px, 2 py - 1) for the middle finger MCP at (px, py): a joint
\* at the left edge of the image gives the offset +1, one at the right edge -1.
HandOffsetMirrored ==
    last.op = "results" /\ last.open >= 0 =>
        /\ gestureLabel \in {"CATCH", "FORM", "UNLEASH", "TRACKING"}
        /\ handPosition # null
        /\ handPosition[1] = CoordOne - 2 * last.mcp.x
        /\ handPosition[2] = 2 * last.mcp.y - CoordOne
        /\ last.mcp.x = 0 => handPosition[1] = CoordOne
        /\ last.mcp.x = CoordOne => handPosition[1] = 0 - CoordOne

\* a half-open hand at the left edge of the image is put at the right
TrackedHandMirrored ==
    /\ last.op = "results"
    /\ gestureLabel = "TRACKING"
    /\ last.mcp = Pt(0, 20)
    /\ handPosition = <<100, -60>>

\* C14: A frame never changes the interaction state, the hand offset or the
\* magnify flag, and the hand offset and a true magnify flag are taken away
\* only by a sensor result, the hand offset only by one without a hand.
TicksReuseClassification ==
    [][/\ last'.op = "tick" =>
             /\ treeState' = treeState
             /\ handPosition' = handPosition
             /\ isMagnified' = isMagnified
       /\ handPosition # null /\ handPosition' = null => SawNoHand(last')
       /\ isMagnified /\ ~isMagnified' => last'.op = "results"]_vars

\* a frame of the longest tick delta with a hand present and magnify on
LongFrameKeepsPinch ==
    /\ last.op = "tick"
    /\ last.isMagnified
    /\ handPosition # null
    /\ isMagnified
    /\ gestureLabel = "CATCH"

\* the handler recorded in l was given a hand that lacks a landmark it reads
SawBroken(l) ==
    l.op = "results" /\ (l.open = -2 \/ (l.open >= 0 /\ l.mcp = null))

\* C17: A sensor result whose hand lacks a landmark that the callback reads
\* is treated like a result without a hand: the hand offset becomes none,
\* magnify becomes false and the interaction state stays as it was.
BrokenSampleIsNoHand ==
    SawBroken(last) =>
        /\ handPosition = null
        /\ ~isMagnified
        /\ treeState = last.treeState

\* C13: Once the component is removed and no call of init and no camera start
\* is pending, no detector is left open and no camera is left running.
ReleasedAfterTeardown ==
    ~mounted /\ initCall = "none" /\ camera # "starting" =>
        hands # "open" /\ camera # "running"

\* C15: While window.Hands is not defined a call of init only sets the timer
\* for the next call: no detector is made and the status stays loading; the hand
\* offset stays none and magnify false, and buttons and frames can run.  Once
\* window.Hands is defined, the call of init that is due goes ahead.
RetryUntilLoaded ==
    /\ [][InitStep /\ ~scriptLoaded =>
              /\ initCall' = "timer"
              /\ hands' = "none"
              /\ status' = status]_vars
    /\ [](hands = "none" /\ fault = "none" =>
              /\ status = "loading"
              /\ handPosition = null
              /\ ~isMagnified
              /\ mounted => ENABLED MountedToggle /\ ENABLED MountedTick)
    /\ (scriptLoaded /\ initCall # "none") ~> (initCall = "none")

\* the script has loaded after two retries and init has made the detector
InitAfterRetries ==
    /\ retries >= 2
    /\ scriptLoaded
    /\ initCall = "none"
    /\ hands = "open"
    /\ status = "loading"

\* C16: When the detector has thrown, in init or while frames are captured,
\* the status is error, and it stays error; the buttons still set the state.
FaultMarksSensorDown ==
    /\ [](mounted /\ fault # "none" => status = "error")
    /\ [][status = "error" => status' = "error"]_vars
    /\ [][last'.op = "toggle" => treeState' = last'.request]_vars

\* the positions on the arc, by photo count and index: x = 9 sin(angle),
\* y = 6 + cos(2 angle), z = 22 + 2 cos(angle), the angles being 0 for one
\* photo, -30 and 30 degrees for two, -45, 0 and 45 for three and -54, -18, 18
\* and 54 for four
ArcLayout ==
    <<  <<<<0, 7000, 24000>>>>,
        <<<<-4500, 6500, 23732>>, <<4500, 6500, 23732>>>>,
        <<<<-6363, 6000, 23414>>, <<0, 7000, 24000>>, <<6363, 6000, 23414>>>>,
        <<<<-7281, 5691, 23176>>, <<-2781, 6809, 23902>>, <<2781, 6809, 23902>>,
          <<7281, 5691, 23176>>>>  >>

\* the scatter position and the formed position of a photo, blended at the
\* morph factor m
Blend(data, m) ==
    [c \in 1..3 |-> (data.scatterPosition[c] * (MorphOne - m)
                     + data.treePosition[c] * m) \div MorphOne]

\* C11: In a frame with magnify on, the target of each photo item is its place
\* on the arc, which its index and the photo count alone give, whatever the
\* morph factor and the positions of the photo; the places of three photos are
\* three different points.  With magnify off the target is the blend of the
\* scatter and the formed position at the morph factor.
PhotoTargetsOnArc ==
    [][frames' = frames + 1 =>
          \A i \in 1..Len(photoData) :
              photoTarget'[i] = IF isMagnified
                                THEN ArcLayout[Len(photoData)][i]
                                ELSE Blend(photoData[i], smoothMorph)]_vars

\* three photos with different data, magnified half way through the morph:
\* their targets are the three places on the arc
ArcOfThreeShown ==
    /\ frames = 1
    /\ isMagnified
    /\ Len(photoData) = 3
    /\ photoData[1].scatterPosition # photoData[2].scatterPosition
    /\ smoothMorph \in 3..5
    /\ photoTarget = <<<<-6363, 6000, 23414>>, <<0, 7000, 24000>>,
                       <<6363, 6000, 23414>>>>

\* the texture of photo i has loaded
ReadyPhotos == {i \in 1..Len(assets) : assets[i] = "ready"}

\* the photo items that are part of the rendered scene
RenderedPhotos == IF Shown(assets, crashed) THEN 1..Len(photoData) ELSE {}

\* C18: A photo whose texture has failed to load or is still loading is the
\* only one missing from the scene: every photo whose texture has loaded is
\* rendered, and frames go on.
OnlyFailedPhotoDropped ==
    /\ RenderedPhotos = ReadyPhotos
    /\ ~crashed

\* new lies between old and target, in each coordinate
Between(old, new, target) ==
    \A c \in 1..3 : \/ old[c] <= new[c] /\ new[c] <= target[c]
                    \/ target[c] <= new[c] /\ new[c] <= old[c]

\* C19: In every frame, whatever its tick delta, each ornament and each photo
\* item ends between its old position and its target: the weight of the blend
\* is at most 1.
NoOvershoot ==
    [][frames' = frames + 1 =>
          /\ \A i \in 1..Len(Ornaments) :
                Between(ornPos[i], ornPos'[i],
                        OrnamentTarget(Ornaments[i], smoothMorph))
          /\ Shown(assets, crashed) =>
                \A i \in 1..Len(photoData) :
                    Between(photoPos[i], photoPos'[i], photoTarget'[i])]_vars

\* C20: An upload adds one photo record per file and leaves the record of
\* every photo that was there as it is.
UploadKeepsEntities ==
    [][photos' # photos =>
          /\ Len(photoData') = Len(photos')
          /\ \A i \in 1..Len(photoData) : photoData'[i] = photoData[i]]_vars

\* the rate of a photo item in normal mode: 2.0 * data.speed, in tenths
NormalRate(data) == 2 * data.speed

\* the rate of every photo item in magnify mode: 5.0, in tenths
MagnifyRate == 50

\* item i has moved in this frame by the weight delta * rate
MovedAtRate(i, delta, rate) ==
    /\ photoPos'[i] =
          [c \in 1..3 |-> photoPos[i][c]
              + ((photoTarget'[i][c] - photoPos[i][c]) * delta * rate)
                  \div (Second * 10)]
    /\ photoScale'[i] =
          photoScale[i]
              + (((IF isMagnified THEN 250 ELSE photoData[i].scale)
                      - photoScale[i]) * delta * rate) \div (Second * 10)

\* C21: In a frame with magnify on every photo item moves at the one rate 5.0,
\* whatever its own speed, and 5.0 is above the normal rate 2.0 * speed of
\* every photo; in a frame with magnify off each item moves at its normal rate.
MagnifyRateFixed ==
    [][frames' = frames + 1 =>
          \E d \in SceneDeltas :
              \A i \in 1..Len(photoData) :
                  /\ NormalRate(photoData[i]) < MagnifyRate
                  /\ MovedAtRate(i, d, IF isMagnified THEN MagnifyRate
                                       ELSE NormalRate(photoData[i]))]_vars

\* two photos of different speeds have moved towards the arc in a magnified
\* frame
MagnifiedFrameOfTwoSpeeds ==
    /\ frames = 1
    /\ isMagnified
    /\ Len(photoData) >= 2
    /\ photoData[1].speed # photoData[2].speed
    /\ photoPos[1] # photoData[1].scatterPosition
    /\ photoPos[2] # photoData[2].scatterPosition

\* C22: After every frame in which the hand drives the camera (a hand offset
\* is present and magnify is off), whatever the offset and the tick delta, the
\* polar angle of the camera lies between 0.1 and pi / 1.6.
PolarAngleClamped ==
    [][last'.op = "tick" /\ handPosition # null /\ ~isMagnified =>
          PolarMin <= camPhi' /\ camPhi' <= PolarMax]_vars

\* after a stalled frame the hand at the bottom of the image has thrown the
\* polar angle down to its lower limit, below every target a hand can set
PolarAngleAtLowerLimit ==
    /\ last.op = "tick"
    /\ handPosition # null
    /\ handPosition[2] = CoordOne
    /\ ~isMagnified
    /\ camPhi = PolarMin

\* C23: Between sensor results, once a result has been applied, magnify on
\* implies that a hand offset is present: no state has magnify on and no hand
\* offset.
MagnifyNeedsHand ==
    isMagnified => handPosition # null

\* no sensor result has arrived and no button has been pressed since the start
Untouched == gestureLabel = "" /\ lastSet = "none"

\* C24: The application starts in the formed state with the morph factor 0.
\* As long as no sensor result arrives and no button is pressed, the state
\* stays formed, every frame raises the morph factor until it is 1, never
\* above, and the morph factor does reach exactly 1 and stays there.
StartupForms ==
    /\ treeState = TREE_SHAPE /\ smoothMorph = 0 /\ Untouched
    /\ [](Untouched => treeState = TREE_SHAPE)
    /\ [][Untouched' /\ last'.op = "tick" =>
             /\ smoothMorph < MorphOne => smoothMorph < smoothMorph'
             /\ smoothMorph = MorphOne => smoothMorph' = MorphOne
             /\ smoothMorph' <= MorphOne]_vars
    /\ Untouched ~> (~Untouched \/ smoothMorph = MorphOne)

\* the frames alone have brought the morph factor from 0 to 1
FormedFromStartup ==
    /\ Untouched
    /\ last.op = "tick"
    /\ treeState = TREE_SHAPE
    /\ smoothMorph = MorphOne

====
